---- MODULE Spec2Model ----
(***************************************************************************)
(* Model of minder_utils.download.Downloader: the export-job client.       *)
(*                                                                         *)
(* The client is one sequential, blocking program.  Every network request  *)
(* (catalog GET, export POST, job-status GET, job-list GET, chunk GET) is  *)
(* one step of the model; the server's answer to it is drawn from a small  *)
(* set.  The local code between two requests belongs to the step of the    *)
(* request that precedes it.                                               *)
(***************************************************************************)
EXTENDS Integers, Sequences, FiniteSets, TLC

\* ------------------------------------------------------------------ bounds
MaxOps == 2          \* calls of export / refresh in one behaviour
MaxSeqLen == 2       \* longest status sequence (202 ... 202, terminal) of a job
MaxManifest == 2     \* longest output manifest of a job
MaxCats == 2         \* longest categories list passed by the caller

\* ----------------------------------------------------------- environment
\* The catalog document of GET info/datasets: {Categories: {group: {id: ..}}}.
Groups == <<"activity", "care">>
Info == [activity |-> <<"a">>, care |-> <<"b">>]
\* Names a caller can pass: the catalog's identifiers and two unknown names.
Names == {"a", "b", "x", "y"}

\* Row keys (start_date in milliseconds, id).
Rows == {<<1000, 1>>, <<1005, 2>>}
\* The CSV chunks a retrieval request can return.
Chunks == {<<>>, <<<<1000, 1>>>>, <<<<1000, 1>>, <<1005, 2>>>>}

\* Optional values: None is the empty tuple, a present value t is <<t>>.
None == <<>>
Untils == {None, <<2000>>}

\* Status sequences of a job: n-1 answers 202 and then `term` for ever, or
\* 202 for ever (stuck).
Behaviours ==
  [n : 1..MaxSeqLen, term : {200, 500}, stuck : {FALSE}]
    \cup {[n |-> 1, term |-> 202, stuck |-> TRUE]}

\* The answers to POST export: the status code and whether the response
\* carries the Content-Location header.
PostAnswers == [code : {202, 400}, location : BOOLEAN]

\* The answers to GET <output.url>: the status code and the CSV rows.
FetchAnswers == [code : {404}, rows : {<<>>}] \cup [code : {200}, rows : Chunks]

\* Saturation of the observation counters in a loop that never ends.
Cap == MaxSeqLen + 1
Inc(n) == IF n < Cap THEN n + 1 ELSE n

\* ---------------------------------------------------------------- helpers
RECURSIVE Flatten(_)
Flatten(ss) == IF ss = <<>> THEN <<>> ELSE Head(ss) \o Flatten(Tail(ss))

Range(s) == {s[i] : i \in DOMAIN s}

\* list(dict.keys()) of a dict filled in the order of s: first occurrences.
RECURSIVE DictKeys(_)
DictKeys(s) ==
  IF s = <<>> THEN <<>>
  ELSE LET r == DictKeys(SubSeq(s, 1, Len(s) - 1))
       IN IF s[Len(s)] \in Range(r) THEN r ELSE Append(r, s[Len(s)])

SeqsUpTo(S, n) == UNION {[1..k -> S] : k \in 0..n}

Max(S) == CHOOSE m \in S : \A k \in S : k <= m

\* datetime.strftime('%Y-%m-%dT%H:%M:%S.000Z'): the sub-second part is not
\* formatted, the text always ends in .000Z.
convert_to_ISO(date) == (date \div 1000) * 1000

\* get_category_names('all'): the keys of every group, in catalog order.
get_category_names == Flatten([i \in DOMAIN Groups |-> Info[Groups[i]]])

\* ------------------------------------------------------------------ state
VARIABLES
  files,            \* save_path: dataset -> [exists, headers, rows]
  jobs,             \* the server's export jobs, in order of submission:
                    \* [state, datasets, output], output the types of the
                    \* entries of the job's manifest
  sched,            \* the status sequence of each job of the running call
  nops,             \* calls made so far
  op,               \* the running call: "idle", "export", "refresh"
  pc,               \* position inside the running call
  raised,           \* the exception the call ended with: [type, arg]
  categories,       \* argument of the call (a list after line 314)
  until,            \* argument of the call
  since,            \* argument of export
  reload,           \* argument of export
  last_rows,        \* refresh: dataset -> key of the last persisted row
  export_dict,      \* refresh: dataset -> <<since, until>>
  categories_list,  \* _export_request_parallel: list(export_dict.keys())
  request_url_dict, \* dataset -> job-status location (index into jobs)
  waiting_for,      \* dataset -> still outstanding
  job_id_dict,      \* dataset -> response['id']
  response,         \* dataset (or "single") -> status of the latest response
  i,                \* index of the category loop the call is in
  k,                \* index of the manifest entry being fetched
  data,             \* the job list of GET export (indexes into jobs)
  output,           \* refresh: the manifest being fetched, or Unbound
  net,              \* requests issued by the running call, by kind
  polls,            \* status requests issued by the running call, per job
  rounds,           \* passes of the body of `while waiting`
  posted,           \* the export POSTs of the running call: [payload, answer]
  fetched,          \* the retrieval requests of the running call, in order:
                    \* [pass, category, entry, of, code, rows, got, put]
  trace             \* status requests and sleeps of the running call, in order

vars == <<files, jobs, sched, nops, op, pc, raised, categories, until, since, reload,
          last_rows, export_dict, categories_list, request_url_dict,
          waiting_for, job_id_dict, response, i, k, data, output, net,
          polls, rounds, posted, fetched, trace>>

locals == <<last_rows, export_dict, categories_list, request_url_dict,
            waiting_for, job_id_dict, response, i, k, data, output>>
observed == <<net, polls, rounds, posted, fetched, trace>>
args == <<categories, until, since, reload>>

Empty == [x \in {} |-> 0]
NoNet == [catalog |-> 0, post |-> 0, list |-> 0, fetch |-> 0]
Unbound == [bound |-> FALSE, v |-> <<>>]
Bound(v) == [bound |-> TRUE, v |-> v]
NoFile == [exists |-> FALSE, headers |-> 0, rows |-> <<>>]

Count(kind) == [net EXCEPT ![kind] = @ + 1]

NoError == [type |-> "", arg |-> ""]
Error(type, arg) == [type |-> type, arg |-> arg]

\* Path(...).exists().  save_path ends with the path separator, as the
\* default does, so that lines 321-322 and lines 352-357 name the same file.
FileExists(category) == files[category].exists

\* An append that writes the header with every chunk.
to_csv_with_header(f, rows) ==
  [exists |-> TRUE, headers |-> f.headers + 1, rows |-> f.rows \o rows]

\* DataFrame.to_csv(path, mode='a', header=not Path(path).exists())
to_csv(f, rows) ==
  [exists |-> TRUE,
   headers |-> IF f.exists THEN f.headers ELSE f.headers + 1,
   rows |-> f.rows \o rows]

\* ------------------------------------------------------------------- Init
Init ==
  /\ files = [c \in Names |-> NoFile]
  /\ jobs = <<>>
  /\ sched = <<>>
  /\ nops = 0
  /\ op = "idle"
  /\ pc = "idle"
  /\ raised = NoError
  /\ categories = <<>>
  /\ until = None
  /\ since = None
  /\ reload = FALSE
  /\ last_rows = Empty
  /\ export_dict = Empty
  /\ categories_list = <<>>
  /\ request_url_dict = Empty
  /\ waiting_for = Empty
  /\ job_id_dict = Empty
  /\ response = Empty
  /\ i = 0
  /\ k = 0
  /\ data = <<>>
  /\ output = Unbound
  /\ net = NoNet
  /\ polls = Empty
  /\ rounds = 0
  /\ posted = <<>>
  /\ fetched = <<>>
  /\ trace = <<>>

Callable == pc \in {"idle", "returned", "raised"} /\ nops < MaxOps

\* What every call starts from: fresh locals, fresh observations.
Enter(name) ==
  /\ Callable
  /\ nops' = nops + 1
  /\ op' = name
  /\ sched' = Empty
  /\ request_url_dict' = Empty
  /\ waiting_for' = Empty
  /\ job_id_dict' = Empty
  /\ response' = Empty
  /\ i' = 0
  /\ k' = 0
  /\ data' = <<>>
  /\ output' = Unbound
  /\ net' = NoNet
  /\ polls' = Empty
  /\ rounds' = 0
  /\ posted' = <<>>
  /\ fetched' = <<>>
  /\ trace' = <<>>

\* ----------------------------------------------------------------- server
\* A job the server has accepted; what GET export will say of it is not
\* decided yet.
Submitted(datasets) ==
  [state |-> "pending", datasets |-> datasets, output |-> <<>>]

Scheduled(url, b) ==
  [j \in DOMAIN sched \cup {url} |->
     IF j = url THEN b ELSE sched[j]]

\* What GET export can say of a job: it is not in the list, or it is, with an
\* output manifest whose entries are of the job's datasets.
Outcomes(job) ==
  IF job.state # "pending" THEN {job}
  ELSE {[state |-> "gone", datasets |-> {}, output |-> <<>>]}
         \cup {[state |-> "listed", datasets |-> {}, output |-> m] :
                 m \in SeqsUpTo(job.datasets, MaxManifest)}

\* The job lists GET export can return the first time after a submission.
Decided == {js \in [DOMAIN jobs -> UNION {Outcomes(jobs[j]) : j \in DOMAIN jobs}] :
              \A j \in DOMAIN jobs : js[j] \in Outcomes(jobs[j])}

\* The list itself: the ids of the listed jobs, oldest first.
RECURSIVE Listing(_, _)
Listing(js, n) ==
  IF n = 0 THEN <<>>
  ELSE IF js[n].state = "listed" THEN Append(Listing(js, n - 1), n)
       ELSE Listing(js, n - 1)

\* ---------------------------------------------------------------- refresh
\* The argument `categories` of refresh: None, one name, or a list of names.
CategoryArgs ==
  {[tag |-> "None", v |-> <<>>]}
    \cup {[tag |-> "str", v |-> <<c>>] : c \in Names}
    \cup {[tag |-> "list", v |-> cs] : cs \in SeqsUpTo(Names, MaxCats)}

\* Lines 320-331: the first category whose file exists and has no row makes
\* iloc[-1] raise; 0 when there is none.
FirstEmptyFile(cs) ==
  LET bad == {j \in DOMAIN cs : FileExists(cs[j]) /\ files[cs[j]].rows = <<>>}
  IN IF bad = {} THEN 0 ELSE CHOOSE j \in bad : \A h \in bad : j <= h

LastRow(category) == files[category].rows[Len(files[category].rows)]

\* refresh, lines 311-331: everything before _export_request_parallel.
refresh(cat, u) ==
  /\ Enter("refresh")
  /\ until' = u
  /\ UNCHANGED <<files, jobs, since, reload>>
  /\ IF cat.tag = "None"
     THEN /\ pc' = "raised"
          /\ raised' = Error("TypeError", "categories")
          /\ categories' = <<>>
          /\ UNCHANGED <<last_rows, export_dict, categories_list>>
     ELSE LET cs == cat.v
              bad == FirstEmptyFile(cs)
              seen == IF bad = 0 THEN cs ELSE SubSeq(cs, 1, bad - 1)
          IN /\ categories' = cs
             /\ last_rows' =
                  [c \in {d \in Range(seen) : FileExists(d)} |-> LastRow(c)]
             /\ export_dict' =
                  [c \in Range(seen) |->
                     <<IF FileExists(c) THEN <<LastRow(c)[1]>> ELSE None, u>>]
             /\ categories_list' = DictKeys(seen)
             /\ IF bad = 0
                THEN pc' = "par_catalog" /\ raised' = NoError
                ELSE pc' = "raised" /\ raised' = Error("IndexError", cs[bad])

\* The JSON body of POST export: `since` and `until` are keys of the payload
\* only when the bound is not None (lines 84-87, 152-155).
Payload(datasets, s, u) ==
  [key \in {"datasets"} \cup (IF s = None THEN {} ELSE {"since"})
                        \cup (IF u = None THEN {} ELSE {"until"}) |->
     CASE key = "datasets" -> datasets
       [] key = "since" -> convert_to_ISO(s[1])
       [] key = "until" -> convert_to_ISO(u[1])]

\* Lines 146-157: the payload of one dataset's job.
export_keys(category) ==
  Payload({category}, export_dict[category][1], export_dict[category][2])

\* A validation that looks at the first key only.
FirstInvalidHeadOnly(cl) ==
  IF cl # <<>> /\ cl[1] \notin Range(get_category_names) THEN 1 ELSE 0

\* Lines 140-142: the first key that is no catalog dataset, 0 when all are.
FirstInvalid(cl) ==
  LET bad == {j \in DOMAIN cl : cl[j] \notin Range(get_category_names)}
  IN IF bad = {} THEN 0 ELSE CHOOSE j \in bad : \A h \in bad : j <= h

\* A pass that asks for the status of every category, resolved or not.
NextListed(wf, from) ==
  IF from < Len(categories_list) THEN from + 1 ELSE 0

\* The next index after `from` whose category is still outstanding, 0 if none.
NextWaiting(wf, from) ==
  LET out == {j \in DOMAIN categories_list : j > from /\ wf[categories_list[j]]}
  IN IF out = {} THEN 0 ELSE CHOOSE j \in out : \A h \in out : j <= h

\* A loop that takes a second pass before it sees that nothing is outstanding.
EnterLoopAgain(wf) ==
  /\ rounds' = IF NextWaiting(wf, 0) = 0 THEN 2 ELSE 1
  /\ IF NextWaiting(wf, 0) = 0
     THEN pc' = "ref_list" /\ i' = 0
     ELSE pc' = "par_poll" /\ i' = NextWaiting(wf, 0)

\* Lines 170-173: the loop is entered; a pass over no outstanding category
\* goes straight to line 195.
EnterLoop(wf) ==
  /\ rounds' = 1
  /\ IF NextWaiting(wf, 0) = 0
     THEN pc' = "ref_list" /\ i' = 0
     ELSE pc' = "par_poll" /\ i' = NextWaiting(wf, 0)

\* _export_request_parallel, lines 136-157: GET info/datasets, validation.
par_validate ==
  /\ op = "refresh" /\ pc = "par_catalog"
  /\ net' = Count("catalog")
  /\ UNCHANGED <<fetched, files, jobs, sched, nops, op, args, last_rows,
                 export_dict,
                 categories_list, request_url_dict, job_id_dict, response, k,
                 data, output, polls, posted, trace>>
  /\ LET bad == FirstInvalid(categories_list)
     IN IF bad # 0
        THEN /\ pc' = "raised"
             /\ raised' = Error("TypeError", categories_list[bad])
             /\ UNCHANGED <<i, rounds, waiting_for>>
        ELSE /\ raised' = NoError
             /\ IF categories_list = <<>>
                THEN waiting_for' = Empty /\ EnterLoop(Empty)
                ELSE /\ pc' = "par_submit" /\ i' = 1
                     /\ UNCHANGED <<rounds, waiting_for>>

\* Lines 162-167: one POST export; headers['Content-Location'].
par_submit ==
  /\ op = "refresh" /\ pc = "par_submit"
  /\ \E ans \in PostAnswers, b \in Behaviours :
       LET category == categories_list[i]
       IN /\ net' = Count("post")
          /\ posted' = Append(posted, [payload |-> export_keys(category),
                                        answer |-> ans])
          /\ UNCHANGED <<files, nops, op, args, last_rows, export_dict,
                         categories_list, job_id_dict, response, k, data,
                         output, polls, fetched, trace>>
          /\ IF ~ans.location
             THEN /\ pc' = "raised"
                  /\ raised' = Error("KeyError", "Content-Location")
                  /\ UNCHANGED <<jobs, sched, request_url_dict, waiting_for,
                                 i, rounds>>
             ELSE /\ jobs' = Append(jobs, Submitted({category}))
                  /\ sched' = Scheduled(Len(jobs) + 1, b)
                  /\ request_url_dict' =
                       [c \in DOMAIN request_url_dict \cup {category} |->
                          IF c = category THEN Len(jobs) + 1
                          ELSE request_url_dict[c]]
                  /\ raised' = NoError
                  /\ IF i < Len(categories_list)
                     THEN /\ pc' = "par_submit" /\ i' = i + 1
                          /\ UNCHANGED <<rounds, waiting_for>>
                     ELSE LET wf == [c \in Range(categories_list) |-> TRUE]
                          IN waiting_for' = wf /\ EnterLoop(wf)

\* GET <job-status-location>: the status of the response, by the job's
\* status sequence and the requests it has answered.
Answered(url) == IF url \in DOMAIN polls THEN polls[url] ELSE 0

Status(url) ==
  IF sched[url].stuck \/ Answered(url) + 1 < sched[url].n
  THEN 202 ELSE sched[url].term

Polled(url) == [j \in DOMAIN polls \cup {url} |->
                  IF j = url THEN Inc(Answered(url)) ELSE polls[j]]

TraceCap == 3 * Cap
Log(event) == IF Len(trace) < TraceCap THEN Append(trace, event) ELSE trace

\* A test that takes every status but 200 for "not ready yet".
IsPendingNot200(st) == st # 200

\* Lines 101 and 182: response['status'] == 202.
IsPending(st) == st = 202

\* A test that goes on only while every category is outstanding.
StillWaitingAll(wf) == FALSE \notin Range(wf)

\* Line 195: True in list(waiting_for.values()).
StillWaiting(wf) == TRUE \in Range(wf)

\* Lines 174-202: one status request of a pass of the loop, for the next
\* outstanding category; after the last one of the pass, line 195.
par_poll ==
  /\ op = "refresh" /\ pc = "par_poll"
  /\ LET category == categories_list[i]
         url == request_url_dict[category]
         st == Status(url)
         wf == [waiting_for EXCEPT ![category] = IsPending(st)]
         next == NextWaiting(wf, i)
     IN /\ polls' = Polled(url)
        /\ trace' = Log(<<"get", category>>)
        /\ response' = [c \in DOMAIN response \cup {category} |->
                          IF c = category THEN st ELSE response[c]]
        /\ job_id_dict' = [c \in DOMAIN job_id_dict \cup {category} |->
                             IF c = category THEN url ELSE job_id_dict[c]]
        /\ waiting_for' = wf
        /\ IF next # 0
           THEN pc' = "par_poll" /\ i' = next
           ELSE /\ i' = 0
                /\ IF StillWaiting(wf)
                   THEN pc' = "par_sleep"
                   ELSE pc' = "ref_list"
  /\ UNCHANGED <<fetched, files, jobs, sched, nops, op, raised, args,
                 last_rows,
                 export_dict, categories_list, request_url_dict, k, data,
                 output, net, rounds, posted>>

\* Line 196: progress_spinner(30, ...), then the next pass.
par_sleep ==
  /\ op = "refresh" /\ pc = "par_sleep"
  /\ trace' = Log(<<"sleep", "">>)
  /\ rounds' = Inc(rounds)
  /\ pc' = "par_poll"
  /\ i' = NextWaiting(waiting_for, 0)
  /\ UNCHANGED <<fetched, files, jobs, sched, nops, op, raised, args,
                 last_rows,
                 export_dict, categories_list, request_url_dict, waiting_for,
                 job_id_dict, response, k, data, output, net, polls, posted>>

\* Lines 337-344: from category number idx on, the lookup of the job in the
\* list and the start of `for data_chunk in output`; categories with an
\* empty manifest are passed over.
RECURSIVE Seek(_, _, _, _)
Seek(idx, out, dat, js) ==
  IF idx > Len(categories)
  THEN [pc |-> "returned", i |-> idx, output |-> out, raised |-> NoError]
  ELSE LET job_id == job_id_dict[categories[idx]]
           out2 == IF job_id \in Range(dat) THEN Bound(js[job_id].output)
                   ELSE out
       IN IF ~out2.bound
          THEN [pc |-> "raised", i |-> idx, output |-> out2,
                raised |-> Error("UnboundLocalError", "output")]
          ELSE IF out2.v = <<>>
               THEN Seek(idx + 1, out2, dat, js)
               ELSE [pc |-> "ref_fetch", i |-> idx, output |-> out2,
                     raised |-> NoError]

\* The observations of submission and polling (the answers to the POSTs, the
\* status sequences the server played, the requests, sleeps and passes
\* counted) are kept until the step after the loop, the GET export request,
\* and dropped there.
LoopForgotten ==
  /\ sched' = Empty
  /\ polls' = Empty
  /\ rounds' = 0
  /\ posted' = <<>>
  /\ trace' = <<>>

Goto(to) ==
  /\ pc' = to.pc
  /\ i' = to.i
  /\ output' = to.output
  /\ raised' = to.raised
  /\ k' = 1

\* Line 335: GET export, then the lookup for the first category.
ref_list ==
  /\ op = "refresh" /\ pc = "ref_list"
  /\ net' = Count("list")
  /\ \E js \in Decided :
       /\ jobs' = js
       /\ data' = Listing(js, Len(js))
       /\ Goto(Seek(1, Unbound, Listing(js, Len(js)), js))
  /\ LoopForgotten
  /\ UNCHANGED <<files, nops, op, args, last_rows, export_dict,
                 categories_list, request_url_dict, waiting_for, job_id_dict,
                 response, fetched>>

\* A merge that never drops the first row of a chunk.
DeduplicatedNever(category, rows) == rows

\* A merge that drops the first row of every chunk.
DeduplicatedAlways(category, rows) == Tail(rows)

\* Lines 349-357: what refresh does with a chunk whose retrieval returned 200.
\* np.all(first row key == last_rows[category]) decides which rows are written.
Deduplicated(category, rows) ==
  IF rows[1] = last_rows[category] THEN Tail(rows) ELSE rows

\* One retrieval request as the log keeps it: the pass of the category loop
\* and the dataset whose file it is for, the entry of the manifest and the
\* length of the manifest, the status code, the rows received, their number
\* and the number of rows appended (-1: no append).
Fetched(category, ans, put) ==
  [pass |-> i, category |-> category, entry |-> k, of |-> Len(output.v),
   code |-> ans.code, rows |-> ans.rows, got |-> Len(ans.rows), put |-> put]

\* Lines 344-357: one retrieval request of refresh and the append.
ref_fetch ==
  /\ op = "refresh" /\ pc = "ref_fetch"
  /\ net' = Count("fetch")
  /\ UNCHANGED <<jobs, sched, nops, op, args, last_rows, export_dict,
                 categories_list, request_url_dict, waiting_for, job_id_dict,
                 response, data, polls, rounds, posted, trace>>
  /\ \E ans \in FetchAnswers :
       LET category == categories[i]
           next == IF k < Len(output.v)
                   THEN [pc |-> "ref_fetch", i |-> i, output |-> output,
                         raised |-> NoError]
                   ELSE Seek(i + 1, output, data, jobs)
       IN IF ans.code # 200
          THEN /\ UNCHANGED files
               /\ fetched' = Append(fetched, Fetched(category, ans, -1))
               /\ IF k < Len(output.v)
                  THEN k' = k + 1 /\ UNCHANGED <<pc, i, output, raised>>
                  ELSE Goto(next)
          ELSE IF ans.rows = <<>>
          THEN /\ pc' = "raised" /\ raised' = Error("IndexError", category)
               /\ fetched' = Append(fetched, Fetched(category, ans, -1))
               /\ UNCHANGED <<files, i, k, output>>
          ELSE IF category \notin DOMAIN last_rows
          THEN /\ pc' = "raised" /\ raised' = Error("KeyError", category)
               /\ fetched' = Append(fetched, Fetched(category, ans, -1))
               /\ UNCHANGED <<files, i, k, output>>
          ELSE /\ files' = [files EXCEPT ![category] =
                              to_csv(@, Deduplicated(category, ans.rows))]
               /\ fetched' = Append(fetched,
                    Fetched(category, ans,
                            Len(Deduplicated(category, ans.rows))))
               /\ IF k < Len(output.v)
                  THEN k' = k + 1 /\ UNCHANGED <<pc, i, output, raised>>
                  ELSE Goto(next)

\* ----------------------------------------------------------------- export
\* The arguments of export.  `categories` is 'all' or a list of names; it is
\* read only by `in` (line 91), so the lists are drawn up to order and
\* repetition.  With reload False no argument other than save_path is read.
RECURSIVE ListOf(_)
ListOf(S) ==
  IF S = {} THEN <<>>
  ELSE LET c == CHOOSE d \in S : TRUE IN <<c>> \o ListOf(S \ {c})

ExportRanges == {<<None, None>>, <<<<1005>>, <<2000>>>>}

ExportArgs ==
  {[reload |-> TRUE, since |-> r[1], until |-> r[2], categories |-> c] :
     r \in ExportRanges,
     c \in {[tag |-> "all", v |-> <<>>]}
             \cup {[tag |-> "list", v |-> ListOf(S)] :
                     S \in {T \in SUBSET Names : Cardinality(T) <= MaxCats}}}
    \cup {[reload |-> FALSE, since |-> None, until |-> None,
           categories |-> [tag |-> "all", v |-> <<>>]]}

\* export, lines 248-253: up to the call of _export_request.
export(a) ==
  /\ Enter("export")
  /\ since' = a.since
  /\ until' = a.until
  /\ reload' = a.reload
  /\ categories' = a.categories
  /\ raised' = NoError
  /\ pc' = IF a.reload THEN "exp_catalog" ELSE "exp_list"
  /\ last_rows' = Empty
  /\ export_dict' = Empty
  /\ categories_list' = <<>>
  /\ UNCHANGED <<files, jobs>>

\* Lines 88-92: the catalog datasets that are in `categories`, or all of them.
Selected ==
  {category \in Range(get_category_names) :
     categories.tag = "all" \/ category \in Range(categories.v)}

\* _export_request, lines 83-94: GET info/datasets and the payload.
exp_catalog ==
  /\ op = "export" /\ pc = "exp_catalog"
  /\ net' = Count("catalog")
  /\ pc' = "exp_submit"
  /\ UNCHANGED <<files, jobs, sched, nops, op, raised, args, locals, polls,
                 rounds, posted, fetched, trace>>

\* Lines 95-96: POST export; headers['Content-Location'].
exp_submit ==
  /\ op = "export" /\ pc = "exp_submit"
  /\ net' = Count("post")
  /\ UNCHANGED <<files, nops, op, args, last_rows, export_dict,
                 categories_list, waiting_for, job_id_dict, response, i, k,
                 data, output, polls, rounds, fetched, trace>>
  /\ \E ans \in PostAnswers, b \in Behaviours :
       /\ posted' = Append(posted, [payload |-> Payload(Selected, since, until),
                                     answer |-> ans])
       /\ IF ~ans.location
          THEN /\ pc' = "raised"
               /\ raised' = Error("KeyError", "Content-Location")
               /\ UNCHANGED <<jobs, sched, request_url_dict>>
          ELSE /\ jobs' = Append(jobs, Submitted(Selected))
               /\ sched' = Scheduled(Len(jobs) + 1, b)
               /\ request_url_dict' = [job \in {"job"} |-> Len(jobs) + 1]
               /\ pc' = "exp_first"
               /\ UNCHANGED raised

\* Line 97: the status request before the loop; lines 98-115: the loop ends
\* at once on a status that is not 202.
exp_first ==
  /\ op = "export" /\ pc = "exp_first"
  /\ LET job_id == request_url_dict["job"]
         st == Status(job_id)
     IN /\ polls' = Polled(job_id)
        /\ trace' = Log(<<"get", "job">>)
        /\ response' = [job \in {"job"} |-> st]
        /\ rounds' = 1
        /\ pc' = IF IsPending(st) THEN "exp_poll" ELSE "exp_list"
  /\ UNCHANGED <<files, jobs, sched, nops, op, raised, args, last_rows,
                 export_dict, categories_list, request_url_dict, waiting_for,
                 job_id_dict, i, k, data, output, net, posted, fetched>>

\* Line 102: the status request of a pass whose response was 202.
exp_poll ==
  /\ op = "export" /\ pc = "exp_poll"
  /\ LET job_id == request_url_dict["job"]
     IN /\ polls' = Polled(job_id)
        /\ trace' = Log(<<"get", "job">>)
        /\ response' = [job \in {"job"} |-> Status(job_id)]
        /\ pc' = "exp_sleep"
  /\ UNCHANGED <<files, jobs, sched, nops, op, raised, args, last_rows,
                 export_dict, categories_list, request_url_dict, waiting_for,
                 job_id_dict, i, k, data, output, net, rounds, posted,
                 fetched>>

\* Line 105: progress_spinner(30, ...) of the same pass, then the next pass:
\* it polls again on 202 and ends the loop on any other status.
exp_sleep ==
  /\ op = "export" /\ pc = "exp_sleep"
  /\ trace' = Log(<<"sleep", "">>)
  /\ rounds' = Inc(rounds)
  /\ pc' = IF IsPending(response["job"]) THEN "exp_poll" ELSE "exp_list"
  /\ UNCHANGED <<files, jobs, sched, nops, op, raised, args, locals, net,
                 polls, posted, fetched>>

\* Lines 256-271: export_index is -1, or with reload False and several jobs
\* listed, the index the user enters.
Indexes(dat) ==
  IF ~reload /\ Len(dat) > 1 THEN DOMAIN dat ELSE {Len(dat)}

\* Line 255: GET export; line 273: data[export_index]['jobRecord']['output'].
exp_list ==
  /\ op = "export" /\ pc = "exp_list"
  /\ net' = Count("list")
  /\ LoopForgotten
  /\ \E js \in Decided :
       LET dat == Listing(js, Len(js))
       IN /\ jobs' = js
          /\ data' = dat
          /\ \E export_index \in Indexes(dat) :
               IF dat = <<>>
               THEN /\ pc' = "raised"
                    /\ raised' = Error("IndexError", "data")
                    /\ UNCHANGED <<output, k>>
               ELSE /\ output' = Bound(js[dat[export_index]].output)
                    /\ k' = 1
                    /\ raised' = NoError
                    /\ pc' = IF js[dat[export_index]].output = <<>>
                             THEN "returned" ELSE "exp_fetch"
  /\ UNCHANGED <<files, nops, op, args, last_rows, export_dict,
                 categories_list, request_url_dict, waiting_for, job_id_dict,
                 response, i, fetched>>

\* Lines 273-283: one retrieval request of export and the append to the file
\* of the entry's type.
exp_fetch ==
  /\ op = "export" /\ pc = "exp_fetch"
  /\ net' = Count("fetch")
  /\ \E ans \in FetchAnswers :
       /\ files' = IF ans.code # 200 THEN files
                   ELSE [files EXCEPT ![output.v[k]] = to_csv(@, ans.rows)]
       /\ fetched' = Append(fetched, Fetched(output.v[k], ans,
                              IF ans.code # 200 THEN -1 ELSE Len(ans.rows)))
  /\ IF k < Len(output.v)
     THEN k' = k + 1 /\ pc' = "exp_fetch"
     ELSE k' = k /\ pc' = "returned"
  /\ UNCHANGED <<jobs, sched, nops, op, raised, args, last_rows, export_dict,
                 categories_list, request_url_dict, waiting_for, job_id_dict,
                 response, i, data, output, polls, rounds, posted, trace>>

\* The calls up to the end of their poll loop.
NextPoll ==
  \/ \E cat \in CategoryArgs, u \in Untils : refresh(cat, u)
  \/ par_validate
  \/ par_submit
  \/ par_poll
  \/ par_sleep
  \/ \E a \in ExportArgs : export(a)
  \/ exp_catalog
  \/ exp_submit
  \/ exp_first
  \/ exp_poll
  \/ exp_sleep

\* The rest of the calls: the job list and the retrieval of the outputs.
NextFetch ==
  \/ ref_list
  \/ ref_fetch
  \/ exp_list
  \/ exp_fetch

Next == NextPoll \/ NextFetch

Spec == Init /\ [][Next]_vars

\* The program observed up to the return of _export_request and
\* _export_request_parallel.
SpecPoll == Init /\ [][NextPoll]_vars

\* The client is one blocking thread: a call that has been made goes on to
\* its next request or sleep for as long as it has one.
RunPoll ==
  \/ par_validate
  \/ par_submit
  \/ par_poll
  \/ par_sleep
  \/ exp_catalog
  \/ exp_submit
  \/ exp_first
  \/ exp_poll
  \/ exp_sleep

FairPoll == SpecPoll /\ WF_vars(RunPoll)

\* ================================================================ claims
CatalogIds == UNION {Range(Info[g]) : g \in DOMAIN Info}
Min(S) == CHOOSE m \in S : \A n \in S : m <= n
Ended == pc \in {"returned", "raised"}
Handle(c) == request_url_dict[c]

\* C1: _export_request_parallel checks every key of the range map against
\* the catalog before it submits: with a key that is no catalog dataset the
\* call has raised the error naming the first such key, and no POST export
\* and no status request has been issued, for the valid keys either.
InvalidKeys ==
  {j \in DOMAIN categories_list : categories_list[j] \notin CatalogIds}

C1_AllOrNothingValidation ==
  (op = "refresh" /\ net.catalog > 0 /\ InvalidKeys # {}) =>
    /\ pc = "raised"
    /\ raised = Error("TypeError", categories_list[Min(InvalidKeys)])
    /\ net.post = 0
    /\ posted = <<>>
    /\ polls = Empty
    /\ request_url_dict = Empty

C1_Witness ==
  /\ op = "refresh" /\ pc = "raised" /\ net.catalog = 1
  /\ Len(categories_list) = 2
  /\ categories_list[1] \in CatalogIds
  /\ raised = Error("TypeError", categories_list[2])

\* C2: export with reload=True and a list naming a dataset that is not in
\* the catalog ends with the error of an invalid dataset and submits no job.
C2_ExportRejectsUnknownDataset ==
  (/\ op = "export" /\ reload /\ pc \notin {"exp_catalog", "exp_submit"}
   /\ categories.tag = "list"
   /\ ~(Range(categories.v) \subseteq CatalogIds)) =>
    /\ pc = "raised" /\ raised.type = "TypeError"
    /\ net.post = 0
    /\ polls = Empty

\* C3: the loop of _export_request_parallel ends exactly when every handle
\* is resolved: after it no handle's latest response is 202, a status request
\* is only issued to a handle that is outstanding, and a sleep (so another
\* pass) is only taken while some handle's latest response is 202.
Outstanding(c) == c \notin DOMAIN response \/ response[c] = 202

C3_LoopEndsExactlyWhenResolved ==
  op = "refresh" =>
    /\ pc = "ref_list" =>
         \A c \in Range(categories_list) : ~Outstanding(c) /\ ~waiting_for[c]
    /\ pc = "par_poll" => Outstanding(categories_list[i])
    /\ pc = "par_sleep" =>
         \E c \in Range(categories_list) :
           c \in DOMAIN response /\ response[c] = 202 /\ waiting_for[c]

C3_Witness ==
  /\ op = "refresh" /\ pc = "ref_list" /\ Len(categories_list) = 2
  /\ rounds = 2
  /\ \E c \in Range(categories_list) : polls[Handle(c)] = 1
  /\ \E c \in Range(categories_list) : response[c] = 500

\* C4: with status sequences of some 202 and one terminal status, the loop of
\* _export_request_parallel ends after as many passes as the longest
\* sequence, each handle was asked once per pass while outstanding, and the
\* value returned gives each handle's terminal status.
C4_RoundsAndStatuses ==
  (op = "refresh" /\ pc = "ref_list" /\ categories_list # <<>>) =>
    /\ rounds = Max({sched[Handle(c)].n : c \in Range(categories_list)})
    /\ \A c \in Range(categories_list) :
         /\ polls[Handle(c)] = sched[Handle(c)].n
         /\ job_id_dict[c] = sched[Handle(c)].term

\* C5: _export_request_parallel on an empty range map: the loop body is
\* passed once, with no status request and no sleep, and the result is empty.
C5_EmptyHandleMap ==
  (op = "refresh" /\ net.catalog > 0 /\ categories_list = <<>>) =>
    /\ pc = "ref_list"
    /\ rounds = 1
    /\ trace = <<>>
    /\ polls = Empty
    /\ job_id_dict = Empty
    /\ net.post = 0

C5_Witness ==
  /\ op = "refresh" /\ pc = "ref_list" /\ net.catalog = 1
  /\ categories = <<>> /\ categories_list = <<>> /\ job_id_dict = Empty

\* C6: polling has no timeout.  While no job of the call is stuck at 202,
\* the poll loop of either kind is eventually left; with a job that answers
\* 202 for ever the loop is never left and a status request is issued to
\* that job again and again.
InLoop ==
  \/ op = "refresh" /\ pc \in {"par_poll", "par_sleep"}
  \/ op = "export" /\ pc \in {"exp_first", "exp_poll", "exp_sleep"}

LoopLeft == pc \in {"ref_list", "exp_list"}

SomeStuck == \E j \in DOMAIN sched : sched[j].stuck

StuckPar(c) ==
  /\ op = "refresh" /\ pc \in {"par_poll", "par_sleep"}
  /\ c \in DOMAIN request_url_dict
  /\ sched[Handle(c)].stuck

StuckSingle ==
  /\ op = "export" /\ pc \in {"exp_first", "exp_poll", "exp_sleep"}
  /\ sched[Handle("job")].stuck

C6_NoTimeout ==
  /\ (InLoop /\ ~SomeStuck) ~> LoopLeft
  /\ [][(InLoop /\ SomeStuck) => InLoop']_vars
  /\ \A c \in CatalogIds :
       <>[]StuckPar(c) => []<><<par_poll /\ categories_list[i] = c>>_vars
  /\ <>[]StuckSingle => []<><<exp_poll>>_vars

C6_Witness ==
  /\ op = "refresh" /\ pc = "par_sleep" /\ rounds = Cap
  /\ \E c \in CatalogIds : StuckPar(c) /\ polls[Handle(c)] = Cap
  /\ \E c \in Range(categories_list) : response[c] = 500

\* C7: the loop of _export_request is the loop of _export_request_parallel
\* with one handle: for a job whose status sequence has n answers, both issue
\* the status requests and sleeps that the one-handle parallel loop issues
\* (request, then sleep and request n-1 times), so neither sleeps after the
\* answer that resolves the job.
Kinds(t) == [j \in DOMAIN t |-> t[j][1]]

OneHandleTrace(n) ==
  [j \in 1..(2 * n - 1) |-> IF j % 2 = 1 THEN "get" ELSE "sleep"]

C7_SingleIsOneHandleParallel ==
  /\ (op = "refresh" /\ pc = "ref_list" /\ Len(categories_list) = 1) =>
       Kinds(trace) = OneHandleTrace(sched[Handle(categories_list[1])].n)
  /\ (op = "export" /\ pc = "exp_list" /\ reload) =>
       Kinds(trace) = OneHandleTrace(sched[Handle("job")].n)

\* C8: a POST export answered with a status that is not 2xx, or without the
\* Content-Location header, ends the call with an error: nothing is posted
\* after it and no status request is issued.
C8_SubmissionFailureIsFatal ==
  \A j \in DOMAIN posted :
    (posted[j].answer.code \notin 200..299 \/ ~posted[j].answer.location) =>
      /\ pc = "raised"
      /\ j = Len(posted)
      /\ polls = Empty

\* C9: in refresh, a job that reports 500 does not abort the others: when
\* the call has ended, every entry of the manifest of every dataset whose job
\* completed and is listed has been retrieved, and appended if it returned
\* 200 with rows.
Completed(c) == c \in DOMAIN response /\ response[c] \notin {202, 500}

C9_FailedJobSparesSiblings ==
  (/\ op = "refresh" /\ Ended /\ net.list > 0
   /\ \E c \in Range(categories_list) : response[c] = 500) =>
    \A d \in Range(categories_list) :
      (Completed(d) /\ jobs[job_id_dict[d]].state = "listed") =>
        \A e \in DOMAIN jobs[job_id_dict[d]].output :
          \E f \in DOMAIN fetched :
            /\ fetched[f].category = d
            /\ fetched[f].entry = e
            /\ (fetched[f].code = 200 /\ fetched[f].got > 0) =>
                 fetched[f].put >= 0

\* C10: the entries of a manifest are retrieved in manifest order, one
\* request each; an entry answered with another status than 200 is skipped
\* with nothing appended, and every later entry of the manifest is retrieved,
\* and appended if it returned 200 with rows.
C10_FailedEntryIsSkipped ==
  Ended =>
    \A f \in DOMAIN fetched :
      /\ fetched[f].entry = 1 \/
           (/\ f > 1
            /\ fetched[f - 1].entry = fetched[f].entry - 1
            /\ fetched[f - 1].pass = fetched[f].pass)
      /\ fetched[f].code # 200 =>
           /\ fetched[f].put = -1
           /\ \A e \in (fetched[f].entry + 1)..fetched[f].of :
                /\ f + e - fetched[f].entry \in DOMAIN fetched
                /\ LET g == fetched[f + e - fetched[f].entry]
                   IN /\ g.pass = fetched[f].pass
                      /\ g.entry = e
                      /\ (g.code = 200 /\ g.got > 0) => g.put >= 0

\* The retrieval request a step of refresh has just added to the log.
Latest == fetched'[Len(fetched')]

RefreshFetched == op = "refresh" /\ Len(fetched') = Len(fetched) + 1

\* C11: in refresh, when the first row of a retrieved chunk has the key of the
\* anchor (the key of the last row of the dataset's file, read before the
\* fetch), the file gains exactly the chunk without its first row, in order:
\* len(chunk) - 1 rows, none with the key of the anchor.
C11_MatchingBoundaryDropsFirstRow ==
  [][RefreshFetched =>
       LET c == Latest.category
           chunk == Latest.rows
       IN (/\ Latest.code = 200 /\ chunk # <<>>
           /\ c \in DOMAIN last_rows /\ chunk[1] = last_rows[c]) =>
            /\ files'[c].rows = files[c].rows \o Tail(chunk)
            /\ Len(files'[c].rows) = Len(files[c].rows) + Len(chunk) - 1
            /\ Latest.put = Len(chunk) - 1
            /\ \A j \in 2..Len(chunk) : chunk[j] # last_rows[c]]_vars

C11_Witness ==
  /\ op = "refresh"
  /\ \E f \in DOMAIN fetched :
       LET c == fetched[f].category
       IN /\ c \in DOMAIN last_rows
          /\ fetched[f].code = 200 /\ Len(fetched[f].rows) = 2
          /\ fetched[f].rows[1] = last_rows[c]
          /\ fetched[f].put = 1
          /\ f = Len(fetched)
          /\ files[c].rows[Len(files[c].rows)] = fetched[f].rows[2]

\* C12: in refresh, when the first row of a retrieved chunk does not have the
\* key of the anchor, the file gains exactly the whole chunk, unchanged:
\* len(chunk) rows.
C12_OtherBoundaryAppendsAll ==
  [][RefreshFetched =>
       LET c == Latest.category
           chunk == Latest.rows
       IN (/\ Latest.code = 200 /\ chunk # <<>>
           /\ c \in DOMAIN last_rows /\ chunk[1] # last_rows[c]) =>
            /\ files'[c].rows = files[c].rows \o chunk
            /\ Len(files'[c].rows) = Len(files[c].rows) + Len(chunk)
            /\ Latest.put = Len(chunk)]_vars

C12_Witness ==
  /\ op = "refresh"
  /\ \E f \in DOMAIN fetched :
       LET c == fetched[f].category
       IN /\ c \in DOMAIN last_rows
          /\ fetched[f].code = 200 /\ Len(fetched[f].rows) = 2
          /\ fetched[f].rows[1] # last_rows[c]
          /\ fetched[f].put = 2
          /\ f = Len(fetched)
          /\ Len(files[c].rows) >= 3
          /\ SubSeq(files[c].rows, Len(files[c].rows) - 1, Len(files[c].rows))
               = fetched[f].rows

\* C13: a refresh of a dataset that has no file ends without error: its job is
\* posted without `since`, and every chunk retrieved for it with status 200
\* and rows is appended verbatim (a new file, with a header, no row dropped).
NoAnchor(c) == c \notin DOMAIN last_rows

C13_RefreshWithoutFileCompletes ==
  op = "refresh" =>
    /\ \A j \in DOMAIN posted :
         (\E c \in posted[j].payload.datasets : NoAnchor(c)) =>
           "since" \notin DOMAIN posted[j].payload
    /\ \A f \in DOMAIN fetched :
         (/\ NoAnchor(fetched[f].category)
          /\ fetched[f].code = 200 /\ fetched[f].got > 0) =>
           /\ fetched[f].put = fetched[f].got
           /\ files[fetched[f].category].headers = 1
           /\ ~(pc = "raised" /\ raised.type = "KeyError"
                              /\ raised.arg = fetched[f].category)

\* C14: refresh posts exactly one job per requested dataset, in the order of
\* the request; the payload names that dataset only, carries `since` equal to
\* the start_date of the last row of the dataset's file, or no `since` key when
\* the dataset has no file, and no two datasets share a job handle.
Submitting == op = "refresh" /\ pc \in {"par_poll", "par_sleep", "ref_list"}

C14_OneJobPerDatasetWithItsRange ==
  Submitting =>
    /\ Len(posted) = Cardinality(Range(categories))
    /\ \A j \in DOMAIN posted :
         LET c == categories_list[j]
             payload == posted[j].payload
         IN /\ payload.datasets = {c}
            /\ NoAnchor(c) => "since" \notin DOMAIN payload
            /\ ~NoAnchor(c) =>
                 /\ "since" \in DOMAIN payload
                 /\ payload.since = last_rows[c][1]
            /\ ("until" \in DOMAIN payload) = (until # None)
    /\ \A c, d \in DOMAIN request_url_dict :
         request_url_dict[c] = request_url_dict[d] => c = d

\* C15: a dataset file has its header exactly once, written by the first
\* write to it, however many chunks export and refresh append afterwards; a
\* file that was never written has none.
C15_HeaderExactlyOnce ==
  \A c \in Names :
    /\ files[c].exists => files[c].headers = 1
    /\ ~files[c].exists => files[c].headers = 0 /\ files[c].rows = <<>>

C15_Witness ==
  /\ nops = 2
  /\ \E f, g \in DOMAIN fetched :
       /\ f < g
       /\ fetched[f].category = fetched[g].category
       /\ fetched[f].put > 0 /\ fetched[g].put > 0
       /\ files[fetched[f].category].headers = 1
       /\ Len(files[fetched[f].category].rows) >= 3

\* C16: dataset files are append-only: every step of export and refresh leaves
\* each file's rows as a prefix of its rows after the step, and changes only
\* files of datasets the call names (the `categories` of refresh; the
\* `categories` of export, every dataset when it is 'all').
IsPrefix(s, t) == Len(s) <= Len(t) /\ SubSeq(t, 1, Len(s)) = s

Named(c) ==
  IF op = "refresh" THEN c \in Range(categories)
  ELSE categories.tag = "all" \/ c \in Range(categories.v)

C16_RowsOnlyAppended ==
  [][\A c \in Names : IsPrefix(files[c].rows, files'[c].rows)]_vars

C16_AppendOnlyNamedFiles ==
  [][\A c \in Names :
       /\ IsPrefix(files[c].rows, files'[c].rows)
       /\ files'[c] # files[c] => Named(c)]_vars

\* C17: in refresh, a dataset with a failed retrieval (an entry of its
\* manifest answered with another status than 200) has nothing appended to
\* its file by that refresh, from no entry of the manifest.
C17_FailedRetrievalLeavesFileUntouched ==
  op = "refresh" =>
    \A f, g \in DOMAIN fetched :
      (fetched[f].pass = fetched[g].pass /\ fetched[f].code # 200) =>
        fetched[g].put <= 0

\* C18: a refresh called with no category (categories None, or an empty
\* list) ends with a TypeError, having issued no request of any kind.
C18_RefreshNeedsCategories ==
  (op = "refresh" /\ categories = <<>> /\ Ended) =>
    /\ pc = "raised"
    /\ raised.type = "TypeError"
    /\ net = NoNet

\* C19: terminal statuses are absorbing.  Once the latest status response of
\* a handle is not 202 (500: failed, anything else: complete), the handle is
\* not outstanding, and for the rest of the call no status request is issued
\* for it, its recorded status does not change and no job is posted.
Resolved(c) == c \in DOMAIN response /\ response[c] # 202

C19_TerminalStatusesAbsorbing ==
  [][nops' = nops =>
       \A c \in DOMAIN response :
         Resolved(c) =>
           /\ polls'[Handle(c)] = polls[Handle(c)]
           /\ response'[c] = response[c]
           /\ posted' = posted
           /\ c \in DOMAIN waiting_for =>
                ~waiting_for[c] /\ ~waiting_for'[c]]_vars

C19_Witness ==
  /\ op = "refresh" /\ rounds = 2
  /\ \E c, d \in Range(categories_list) :
       /\ response[c] = 500 /\ polls[Handle(c)] = 1
       /\ ~waiting_for[c]
       /\ polls[Handle(d)] = 2

\* C20: in refresh, rows are appended to the file of dataset D only from the
\* manifest of the job posted for D: when D's job is not in the list of GET
\* export, nothing is appended to D's file.
C20_RowsOnlyFromOwnManifest ==
  op = "refresh" =>
    \A f \in DOMAIN fetched :
      fetched[f].put > 0 =>
        job_id_dict[fetched[f].category] \in Range(data)

\* C21: an export with reload=True whose job reported 500 retrieves nothing:
\* it issues no retrieval request (and so creates or modifies no file).
Failed == "job" \in DOMAIN response /\ response["job"] = 500

C21_FailedExportFetchesNothing ==
  (op = "export" /\ reload /\ Failed) => net.fetch = 0

\* C22: one refresh appends the rows of an entry of a dataset's manifest to
\* the dataset's file at most once, also when `categories` names the dataset
\* more than once; one job is posted for the dataset.
C22_EachEntryAppendedOnce ==
  op = "refresh" =>
    /\ Len(posted) <= Cardinality(Range(categories))
    /\ \A f, g \in DOMAIN fetched :
         (/\ fetched[f].category = fetched[g].category
          /\ fetched[f].entry = fetched[g].entry
          /\ fetched[f].put > 0 /\ fetched[g].put > 0) => f = g

====
